---- MODULE Spec2Model ----
(***************************************************************************)
(* Model of treeherder/log_parser/artifactbuilders.pyx: ArtifactBuilderBase *)
(* (parse_line, get_artifact) and its three variants.  The sub-parsers      *)
(* (treeherder/log_parser/parsers.py) are collaborators: they are modelled  *)
(* by their capability contract (name, complete, parse_line, get_artifact). *)
(***************************************************************************)
EXTENDS Integers, Sequences, FiniteSets, TLC

\* ------------------------------------------------------------------ bounds
\* number of parse_line calls explored on one builder
MaxCalls == 2
\* number of characters by which the long input lines exceed MAX_LINE_LENGTH
ExtraLen == 100

\* number of parse_line calls explored on two builders together
MaxCallsTwo == 2
\* number of returning get_artifact calls explored on each of two builders
MaxGets == 2

\* --------------------------------------------------------------- constants
MAX_LINE_LENGTH == 500

\* ------------------------------------------------------------------ strings
\* A line is a sequence of one-character strings.
Rep(c, n) == [i \in 1..n |-> c]

TALOSDATA == <<"T", "A", "L", "O", "S", "D", "A", "T", "A">>

TalosResult == <<"T", "a", "l", "o", "s", "R", "e", "s", "u", "l", "t">>

\* python: sub in s
Contains(sub, s) ==
    \E i \in 1..(Len(s) - Len(sub) + 1) : SubSeq(s, i, i + Len(sub) - 1) = sub

\* python: s[:n]
Slice(s, n) == SubSeq(s, 1, IF Len(s) < n THEN Len(s) ELSE n)

\* the url argument: None is <<>>, a string u is <<u>>
None == <<>>

Urls == {None, <<"http://x/log.txt">>}

\* Lines fed to the builder: short and long ones, with and without a marker,
\* with the marker before, across and beyond MAX_LINE_LENGTH.
InputLines ==
    { <<>>,
      Rep("x", MAX_LINE_LENGTH),
      Rep("x", MAX_LINE_LENGTH) \o <<"y">>,
      Rep("x", MAX_LINE_LENGTH) \o Rep("y", ExtraLen),
      Rep("x", MAX_LINE_LENGTH) \o <<"T", "A", "L", "O", "S">>,
      TALOSDATA \o Rep("x", MAX_LINE_LENGTH) \o Rep("y", ExtraLen),
      Rep("x", MAX_LINE_LENGTH - 4) \o TALOSDATA \o Rep("y", ExtraLen),
      Rep("x", MAX_LINE_LENGTH) \o Rep("y", ExtraLen) \o TalosResult }

\* -------------------------------------------------------------- sub-parsers
\* Names a sub-parser of a class may carry: parsers.py fixes one per class
\* and the builder only reads sp.name, so a name of the parser's own and the
\* name of the builder that holds it are both admitted.  The names within one
\* builder differ and "logurl" is not among them.
SubParserNames(cls) ==
    CASE cls = "TinderboxPrintParser" -> {"job_details", "Job Info"}
      [] cls = "HeaderParser" -> {"header"}
      [] cls = "StepParser" -> {"step_data", "Structured Log"}
      [] cls = "TalosParser" -> {"talos_data"}

\* What one call of a sub-parser's parse_line does: consume the line, consume
\* it and become complete, or raise.
Outcomes == {"ok", "done", "fail"}

\* ParserBase.__init__
NewParser(cls, nm, ce) ==
    [cls |-> cls, name |-> nm, complete |-> FALSE, artifact |-> <<>>,
     check_errors |-> ce]

\* sub-parser parse_line(line, lineno): a no-op once complete
ParserParseLine(p, line, lineno, outcome) ==
    IF p.complete \/ outcome = "fail" THEN p
    ELSE [p EXCEPT !.artifact = Append(@, lineno),
                   !.complete = (outcome = "done")]

\* sub-parser get_artifact()
ParserGetArtifact(p) == p.artifact

\* ------------------------------------------------------------------- state
VARIABLES
    variant,      \* the builder class constructed
    url,          \* the url argument of the constructor
    check_errors, \* the check_errors argument of the constructor
    artifact,     \* self.artifact
    lineno,       \* self.lineno
    parsers,      \* self.parsers
    name,         \* self.name
    op,           \* the builder operation last called
    failed,       \* index of the sub-parser whose call raised in it, else 0
    raised,       \* whether the builder operation ended in that exception
    ret,          \* <<m>> when that call returned the mapping m, else <<>>
    input,        \* the line argument of the last parse_line call
    delivered,    \* per sub-parser, its parse_line calls during the last op
    order,        \* the indices of the sub-parsers called by parse_line
                  \* during the last op, in the order of the calls
    asked,        \* per sub-parser, its get_artifact calls during the last op
    ncalls,       \* number of parse_line calls made on the builder
    nreturned,    \* number of those that returned normally
    seen,         \* per sub-parser, the stream indices of the lines it got
    cut           \* per sub-parser, the stream indices of the calls that an
                  \* earlier sub-parser's failure ended before reaching it

\* Two builders side by side, their objects held by reference.
VARIABLES
    builders,     \* per builder: lineno, name, and the addresses of its
                  \* artifact mapping and of its sub-parsers, in list order
    pheap,        \* the sub-parser objects, by address
    dheap,        \* the mapping objects, by address
    alone,        \* per builder, the lineno, sub-parsers and artifact that
                  \* its own calls produce when made on a builder by itself
    rets,         \* per builder, the addresses its get_artifact calls returned
    snaps,        \* per builder, those mappings as they were when returned
    last,         \* the call made last: builder, operation, whether it raised
    tcalls        \* number of parse_line calls made on the two builders

varsOne == <<variant, url, check_errors, artifact, lineno, parsers, name, op,
             failed, raised, ret, input, delivered, order, asked, ncalls,
             nreturned, seen, cut>>

varsTwo == <<builders, pheap, dheap, alone, rets, snaps, last, tcalls>>

vars == <<variant, url, check_errors, artifact, lineno, parsers, name, op,
          failed, raised, ret, input, delivered, order, asked, ncalls,
          nreturned, seen, cut,
          builders, pheap, dheap, alone, rets, snaps, last, tcalls>>

\* no second builder is around
OneBuilder ==
    /\ builders = <<>>
    /\ pheap = <<>>
    /\ dheap = <<>>
    /\ alone = <<>>
    /\ rets = <<>>
    /\ snaps = <<>>
    /\ last = <<>>
    /\ tcalls = 0

\* ---------------------------------------------------------------- builder
\* Construct dropping the url argument
Construct_NoUrl(v, u, ce, ps, nm) ==
    /\ variant = v
    /\ url = u
    /\ check_errors = ce
    /\ artifact = [k \in {"logurl"} |-> None]
    /\ lineno = 0
    /\ parsers = ps
    /\ name = nm
    /\ op = "init"
    /\ failed = 0
    /\ raised = FALSE
    /\ ret = <<>>
    /\ input = <<>>
    /\ delivered = [i \in 1..Len(ps) |-> <<>>]
    /\ order = <<>>
    /\ asked = [i \in 1..Len(ps) |-> 0]
    /\ ncalls = 0
    /\ nreturned = 0
    /\ seen = [i \in 1..Len(ps) |-> <<>>]
    /\ cut = [i \in 1..Len(ps) |-> {}]
    /\ OneBuilder

\* ArtifactBuilderBase.__init__ followed by the variant's own assignments
Construct(v, u, ce, ps, nm) ==
    /\ variant = v
    /\ url = u
    /\ check_errors = ce
    /\ artifact = [k \in {"logurl"} |-> u]
    /\ lineno = 0
    /\ parsers = ps
    /\ name = nm
    /\ op = "init"
    /\ failed = 0
    /\ raised = FALSE
    /\ ret = <<>>
    /\ input = <<>>
    /\ delivered = [i \in 1..Len(ps) |-> <<>>]
    /\ order = <<>>
    /\ asked = [i \in 1..Len(ps) |-> 0]
    /\ ncalls = 0
    /\ nreturned = 0
    /\ seen = [i \in 1..Len(ps) |-> <<>>]
    /\ cut = [i \in 1..Len(ps) |-> {}]
    /\ OneBuilder

\* BuildbotJobArtifactBuilder leaving the name the base class has set
BuildbotJobArtifactBuilder_NoName ==
    \E u \in Urls, n1 \in SubParserNames("TinderboxPrintParser") :
        Construct("job", u, TRUE,
                  <<NewParser("TinderboxPrintParser", n1, TRUE)>>,
                  "Generic Artifact")

BuildbotJobArtifactBuilder ==
    \E u \in Urls, n1 \in SubParserNames("TinderboxPrintParser") :
        Construct("job", u, TRUE,
                  <<NewParser("TinderboxPrintParser", n1, TRUE)>>, "Job Info")

BuildbotLogViewArtifactBuilder ==
    \E u \in Urls, ce \in BOOLEAN,
       n1 \in SubParserNames("HeaderParser"),
       n2 \in SubParserNames("StepParser") :
        /\ n1 # n2
        /\ Construct("logview", u, ce,
                     <<NewParser("HeaderParser", n1, TRUE),
                       NewParser("StepParser", n2, ce)>>, "Structured Log")

BuildbotPerformanceDataArtifactBuilder ==
    \E u \in Urls, ce \in BOOLEAN, n1 \in SubParserNames("TalosParser") :
        Construct("perf", u, ce,
                  <<NewParser("TalosParser", n1, TRUE)>>, "talos_data")

Init ==
    \/ BuildbotJobArtifactBuilder
    \/ BuildbotLogViewArtifactBuilder
    \/ BuildbotPerformanceDataArtifactBuilder

\* TruncateLine cutting one character late
TruncateLine_OffByOne(line) ==
    IF ~Contains(TALOSDATA, line) /\ ~Contains(TalosResult, line)
    THEN Slice(line, MAX_LINE_LENGTH + 1)
    ELSE line

\* TruncateLine looking for the markers in the cut line only
TruncateLine_TestAfterCut(line) ==
    IF    ~Contains(TALOSDATA, Slice(line, MAX_LINE_LENGTH))
       /\ ~Contains(TalosResult, Slice(line, MAX_LINE_LENGTH))
    THEN Slice(line, MAX_LINE_LENGTH)
    ELSE line

\* parse_line, lines 41-42: the marker test and the truncation
TruncateLine(line) ==
    IF ~Contains(TALOSDATA, line) /\ ~Contains(TalosResult, line)
    THEN Slice(line, MAX_LINE_LENGTH)
    ELSE line

\* TruncateLine on the lines fed, evaluated once
Truncated == [line \in InputLines |-> TruncateLine(line)]

\* ParseLoop calling complete sub-parsers too
RECURSIVE ParseLoop_NoCompleteCheck(_, _, _, _, _)
ParseLoop_NoCompleteCheck(acc, line, n, oc, i) ==
    IF i > Len(acc.parsers) THEN acc
    ELSE LET called == [acc EXCEPT
                 !.parsers[i] = ParserParseLine(@, line, n, oc[i]),
                 !.delivered[i] = Append(@, [line |-> line, lineno |-> n]),
                 !.order = Append(@, i)]
         IN  IF oc[i] = "fail"
             THEN [called EXCEPT !.failed = i, !.raised = TRUE]
             ELSE ParseLoop_NoCompleteCheck(called, line, n, oc, i + 1)

\* ParseLoop leaving the loop at the first complete sub-parser
RECURSIVE ParseLoop_BreakOnComplete(_, _, _, _, _)
ParseLoop_BreakOnComplete(acc, line, n, oc, i) ==
    IF i > Len(acc.parsers) THEN acc
    ELSE IF acc.parsers[i].complete THEN acc
    ELSE LET called == [acc EXCEPT
                 !.parsers[i] = ParserParseLine(@, line, n, oc[i]),
                 !.delivered[i] = Append(@, [line |-> line, lineno |-> n]),
                 !.order = Append(@, i)]
         IN  IF oc[i] = "fail"
             THEN [called EXCEPT !.failed = i, !.raised = TRUE]
             ELSE ParseLoop_BreakOnComplete(called, line, n, oc, i + 1)

\* ParseLoop catching a sub-parser's exception and going on
RECURSIVE ParseLoop_Swallow(_, _, _, _, _)
ParseLoop_Swallow(acc, line, n, oc, i) ==
    IF i > Len(acc.parsers) THEN acc
    ELSE IF acc.parsers[i].complete
         THEN ParseLoop_Swallow(acc, line, n, oc, i + 1)
    ELSE LET called == [acc EXCEPT
                 !.parsers[i] = ParserParseLine(@, line, n, oc[i]),
                 !.delivered[i] = Append(@, [line |-> line, lineno |-> n]),
                 !.order = Append(@, i)]
         IN  IF oc[i] = "fail"
             THEN ParseLoop_Swallow([called EXCEPT !.failed = i],
                                    line, n, oc, i + 1)
             ELSE ParseLoop_Swallow(called, line, n, oc, i + 1)

\* ParseLoop with the counter incremented inside the loop
RECURSIVE ParseLoop_IncrementInside(_, _, _, _, _)
ParseLoop_IncrementInside(acc, line, n, oc, i) ==
    IF i > Len(acc.parsers) THEN acc
    ELSE IF acc.parsers[i].complete
         THEN ParseLoop_IncrementInside(acc, line, n, oc, i + 1)
    ELSE LET called == [acc EXCEPT
                 !.parsers[i] = ParserParseLine(@, line, n, oc[i]),
                 !.delivered[i] = Append(@, [line |-> line, lineno |-> n]),
                 !.order = Append(@, i)]
         IN  IF oc[i] = "fail"
             THEN [called EXCEPT !.failed = i, !.raised = TRUE]
             ELSE ParseLoop_IncrementInside(called, line, n + 1, oc, i + 1)

\* parse_line, lines 44-46: the loop over self.parsers from index i on.
\* acc = [parsers, delivered, failed, raised]; oc[i] is what parser i does
\* when called.  An exception raised by a sub-parser is not caught: it ends
\* the loop and the builder's call.
RECURSIVE ParseLoop(_, _, _, _, _)
ParseLoop(acc, line, n, oc, i) ==
    IF i > Len(acc.parsers) THEN acc
    ELSE IF acc.parsers[i].complete THEN ParseLoop(acc, line, n, oc, i + 1)
    ELSE LET called == [acc EXCEPT
                 !.parsers[i] = ParserParseLine(@, line, n, oc[i]),
                 !.delivered[i] = Append(@, [line |-> line, lineno |-> n]),
                 !.order = Append(@, i)]
         IN  IF oc[i] = "fail"
             THEN [called EXCEPT !.failed = i, !.raised = TRUE]
             ELSE ParseLoop(called, line, n, oc, i + 1)

\* LinenoAfter counting the dispatches instead of the call
LinenoAfter_PerDispatch(r, n) ==
    IF r.raised THEN n
    ELSE n + Cardinality({i \in 1..Len(r.parsers) : r.delivered[i] # <<>>})

\* LinenoAfter incrementing also when the loop was left by an exception
LinenoAfter_Always(r, n) == n + 1

\* parse_line, line 48: self.lineno += 1, reached when the loop has ended
LinenoAfter(r, n) == IF r.raised THEN n ELSE n + 1

\* ArtifactBuilderBase.parse_line
parse_line(line, oc) ==
    /\ ncalls < MaxCalls
    /\ LET r == ParseLoop([parsers |-> parsers,
                           delivered |-> [i \in 1..Len(parsers) |-> <<>>],
                           order |-> <<>>,
                           failed |-> 0,
                           raised |-> FALSE],
                          Truncated[line], lineno, oc, 1)
       IN  /\ parsers' = r.parsers
           /\ delivered' = r.delivered
           /\ order' = r.order
           /\ failed' = r.failed
           /\ raised' = r.raised
           /\ lineno' = LinenoAfter(r, lineno)
           /\ nreturned' = IF r.raised THEN nreturned ELSE nreturned + 1
           /\ seen' = [i \in 1..Len(parsers) |->
                          IF r.delivered[i] # <<>> THEN Append(seen[i], ncalls)
                          ELSE seen[i]]
           /\ cut' = [i \in 1..Len(parsers) |->
                          IF r.failed # 0 /\ i > r.failed
                          THEN cut[i] \cup {ncalls} ELSE cut[i]]
    /\ op' = "parse_line"
    /\ input' = line
    /\ ret' = <<>>
    /\ asked' = [i \in 1..Len(parsers) |-> 0]
    /\ ncalls' = ncalls + 1
    /\ UNCHANGED <<variant, url, check_errors, artifact, name>>
    /\ UNCHANGED varsTwo

\* self.artifact[k] = v
Put(m, k, v) == [x \in DOMAIN m \cup {k} |-> IF x = k THEN v ELSE m[x]]

\* ArtifactLoop returning from inside the loop, after the first sub-parser
ArtifactLoop_FirstOnly(acc, ps, f, i) ==
    IF i > Len(ps) THEN acc
    ELSE IF i = f
         THEN [acc EXCEPT !.asked[i] = @ + 1, !.failed = i, !.raised = TRUE]
         ELSE [acc EXCEPT
                  !.artifact = Put(@, ps[i].name, ParserGetArtifact(ps[i])),
                  !.asked[i] = @ + 1]

\* ArtifactLoop keying a section by the sub-parser's class, not its name
RECURSIVE ArtifactLoop_KeyByClass(_, _, _, _)
ArtifactLoop_KeyByClass(acc, ps, f, i) ==
    IF i > Len(ps) THEN acc
    ELSE IF i = f
         THEN [acc EXCEPT !.asked[i] = @ + 1, !.failed = i, !.raised = TRUE]
         ELSE ArtifactLoop_KeyByClass(
                 [acc EXCEPT
                     !.artifact = Put(@, ps[i].cls, ParserGetArtifact(ps[i])),
                     !.asked[i] = @ + 1],
                 ps, f, i + 1)

\* ArtifactLoop keeping a section that an earlier call has stored
RECURSIVE ArtifactLoop_Cached(_, _, _, _)
ArtifactLoop_Cached(acc, ps, f, i) ==
    IF i > Len(ps) THEN acc
    ELSE IF i = f
         THEN [acc EXCEPT !.asked[i] = @ + 1, !.failed = i, !.raised = TRUE]
         ELSE ArtifactLoop_Cached(
                 [acc EXCEPT
                     !.artifact = IF ps[i].name \in DOMAIN @ THEN @
                                  ELSE Put(@, ps[i].name,
                                           ParserGetArtifact(ps[i])),
                     !.asked[i] = @ + 1],
                 ps, f, i + 1)

\* get_artifact, lines 52-53: the loop over self.parsers from index i on.
\* acc = [artifact, asked, failed, raised]; sub-parser f (0: none) raises
\* when asked for its artifact, which ends the loop and the builder's call.
RECURSIVE ArtifactLoop(_, _, _, _)
ArtifactLoop(acc, ps, f, i) ==
    IF i > Len(ps) THEN acc
    ELSE IF i = f
         THEN [acc EXCEPT !.asked[i] = @ + 1, !.failed = i, !.raised = TRUE]
         ELSE ArtifactLoop(
                 [acc EXCEPT
                     !.artifact = Put(@, ps[i].name, ParserGetArtifact(ps[i])),
                     !.asked[i] = @ + 1],
                 ps, f, i + 1)

\* get_artifact clearing the sub-parsers once it has read them
get_artifact_ClearParsers(f) ==
    /\ LET r == ArtifactLoop([artifact |-> artifact,
                              asked |-> [i \in 1..Len(parsers) |-> 0],
                              failed |-> 0,
                              raised |-> FALSE],
                             parsers, f, 1)
       IN  /\ artifact' = r.artifact
           /\ asked' = r.asked
           /\ failed' = r.failed
           /\ raised' = r.raised
           /\ ret' = IF r.raised THEN <<>> ELSE <<r.artifact>>
    /\ parsers' = [i \in 1..Len(parsers) |->
                      [parsers[i] EXCEPT !.artifact = <<>>,
                                         !.complete = FALSE]]
    /\ op' = "get_artifact"
    /\ delivered' = [i \in 1..Len(parsers) |-> <<>>]
    /\ order' = <<>>
    /\ UNCHANGED <<variant, url, check_errors, lineno, name, input,
                   ncalls, nreturned, seen, cut>>
    /\ UNCHANGED varsTwo

\* ArtifactBuilderBase.get_artifact
get_artifact(f) ==
    /\ LET r == ArtifactLoop([artifact |-> artifact,
                              asked |-> [i \in 1..Len(parsers) |-> 0],
                              failed |-> 0,
                              raised |-> FALSE],
                             parsers, f, 1)
       IN  /\ artifact' = r.artifact
           /\ asked' = r.asked
           /\ failed' = r.failed
           /\ raised' = r.raised
           /\ ret' = IF r.raised THEN <<>> ELSE <<r.artifact>>
    /\ op' = "get_artifact"
    /\ delivered' = [i \in 1..Len(parsers) |-> <<>>]
    /\ order' = <<>>
    /\ UNCHANGED <<variant, url, check_errors, lineno, parsers, name, input,
                   ncalls, nreturned, seen, cut>>
    /\ UNCHANGED varsTwo

ParseLineStep ==
    \E line \in InputLines, oc \in [1..Len(parsers) -> Outcomes] :
        parse_line(line, oc)

GetArtifactStep == \E f \in 0..Len(parsers) : get_artifact(f)

Next == ParseLineStep \/ GetArtifactStep

Spec == Init /\ [][Next]_vars

\* ------------------------------------------- two builders, by reference
\* The one-builder state is not in use here.
NoBuilder ==
    /\ variant = "none"
    /\ url = None
    /\ check_errors = TRUE
    /\ artifact = <<>>
    /\ lineno = 0
    /\ parsers = <<>>
    /\ name = ""
    /\ op = "init"
    /\ failed = 0
    /\ raised = FALSE
    /\ ret = <<>>
    /\ input = <<>>
    /\ delivered = <<>>
    /\ order = <<>>
    /\ asked = <<>>
    /\ ncalls = 0
    /\ nreturned = 0
    /\ seen = <<>>
    /\ cut = <<>>

Variants == {"job", "logview", "perf"}

\* What a variant's __init__ assigns to self.parsers and self.name.
Wiring(v, ce) ==
    CASE v = "job" ->
           [parsers |-> <<NewParser("TinderboxPrintParser", "job_details",
                                    TRUE)>>,
            name |-> "Job Info"]
      [] v = "logview" ->
           [parsers |-> <<NewParser("HeaderParser", "header", TRUE),
                          NewParser("StepParser", "step_data", ce)>>,
            name |-> "Structured Log"]
      [] v = "perf" ->
           [parsers |-> <<NewParser("TalosParser", "talos_data", TRUE)>>,
            name |-> "talos_data"]

\* Fresh handing out the same objects to every constructor
Fresh_Reused(heap, n) == [i \in 1..n |-> i]

\* The addresses of n objects created now: none of them is in use already.
Fresh(heap, n) == [i \in 1..n |-> Cardinality(DOMAIN heap) + i]

\* the heap with objs[i] stored at addrs[i]
StoreAll(heap, addrs, objs) ==
    [a \in DOMAIN heap \cup {addrs[i] : i \in 1..Len(addrs)} |->
        IF \E i \in 1..Len(addrs) : addrs[i] = a
        THEN objs[CHOOSE i \in 1..Len(addrs) : addrs[i] = a]
        ELSE heap[a]]

\* A variant's __init__ run on the heaps h = [p, d]: the mapping, the list
\* and the sub-parsers are created by the call.
ConstructTwo(h, v, u, ce) ==
    LET w == Wiring(v, ce)
        da == Fresh(h.d, 1)
        pa == Fresh(h.p, Len(w.parsers))
    IN  [builder |-> [variant |-> v, artifact |-> da[1], lineno |-> 0,
                      parsers |-> pa, name |-> w.name],
         p |-> StoreAll(h.p, pa, w.parsers),
         d |-> StoreAll(h.d, da, <<[k \in {"logurl"} |-> u]>>),
         alone |-> [lineno |-> 0, parsers |-> w.parsers,
                    artifact |-> [k \in {"logurl"} |-> u]]]

InitTwo ==
    /\ NoBuilder
    /\ \E v1 \in Variants, v2 \in Variants :
          LET c1 == ConstructTwo([p |-> <<>>, d |-> <<>>], v1,
                                 <<"http://x/log.txt">>, TRUE)
              c2 == ConstructTwo([p |-> c1.p, d |-> c1.d], v2, None, TRUE)
          IN  /\ builders = <<c1.builder, c2.builder>>
              /\ pheap = c2.p
              /\ dheap = c2.d
              /\ alone = <<c1.alone, c2.alone>>
    /\ rets = <<<<>>, <<>>>>
    /\ snaps = <<<<>>, <<>>>>
    /\ last = [b |-> 0, op |-> "init", raised |-> FALSE]
    /\ tcalls = 0

\* the sub-parser objects of builder b, in list order
ParsersOf(b) == [i \in 1..Len(builders[b].parsers) |->
                    pheap[builders[b].parsers[i]]]

\* the loop of parse_line run on the sub-parsers ps with counter n
RunParse(ps, line, n, oc) ==
    ParseLoop([parsers |-> ps,
               delivered |-> [i \in 1..Len(ps) |-> <<>>],
               order |-> <<>>,
               failed |-> 0,
               raised |-> FALSE],
              Truncated[line], n, oc, 1)

\* the loop of get_artifact run on the mapping m and the sub-parsers ps
RunArtifact(m, ps, f) ==
    ArtifactLoop([artifact |-> m,
                  asked |-> [i \in 1..Len(ps) |-> 0],
                  failed |-> 0,
                  raised |-> FALSE],
                 ps, f, 1)

\* ArtifactBuilderBase.parse_line on builder b
parse_line_two(b, line, oc) ==
    /\ tcalls < MaxCallsTwo
    /\ LET r == RunParse(ParsersOf(b), line, builders[b].lineno, oc)
           a == RunParse(alone[b].parsers, line, alone[b].lineno, oc)
       IN  /\ pheap' = StoreAll(pheap, builders[b].parsers, r.parsers)
           /\ builders' = [builders EXCEPT
                              ![b].lineno = LinenoAfter(r, @)]
           /\ alone' = [alone EXCEPT
                           ![b].parsers = a.parsers,
                           ![b].lineno = LinenoAfter(a, @)]
           /\ last' = [b |-> b, op |-> "parse_line", raised |-> r.raised]
    /\ tcalls' = tcalls + 1
    /\ UNCHANGED <<dheap, rets, snaps>>
    /\ UNCHANGED varsOne

\* get_artifact returning a copy of the mapping
get_artifact_two_Copy(b, f) ==
    /\ Len(rets[b]) < MaxGets
    /\ LET r == RunArtifact(dheap[builders[b].artifact], ParsersOf(b), f)
           a == RunArtifact(alone[b].artifact, alone[b].parsers, f)
           c == Fresh(dheap, 1)
       IN  /\ dheap' = IF r.raised
                       THEN StoreAll(dheap, <<builders[b].artifact>>,
                                     <<r.artifact>>)
                       ELSE StoreAll(dheap, <<builders[b].artifact, c[1]>>,
                                     <<r.artifact, r.artifact>>)
           /\ alone' = [alone EXCEPT ![b].artifact = a.artifact]
           /\ rets' = IF r.raised THEN rets
                      ELSE [rets EXCEPT ![b] = Append(@, c[1])]
           /\ snaps' = IF r.raised THEN snaps
                       ELSE [snaps EXCEPT ![b] = Append(@, r.artifact)]
           /\ last' = [b |-> b, op |-> "get_artifact", raised |-> r.raised]
    /\ UNCHANGED <<builders, pheap, tcalls>>
    /\ UNCHANGED varsOne

\* ArtifactBuilderBase.get_artifact on builder b: the sections are stored
\* into the mapping self.artifact refers to, and that reference is returned.
get_artifact_two(b, f) ==
    /\ Len(rets[b]) < MaxGets
    /\ LET r == RunArtifact(dheap[builders[b].artifact], ParsersOf(b), f)
           a == RunArtifact(alone[b].artifact, alone[b].parsers, f)
       IN  /\ dheap' = StoreAll(dheap, <<builders[b].artifact>>,
                                <<r.artifact>>)
           /\ alone' = [alone EXCEPT ![b].artifact = a.artifact]
           /\ rets' = IF r.raised THEN rets
                      ELSE [rets EXCEPT ![b] = Append(@, builders[b].artifact)]
           /\ snaps' = IF r.raised THEN snaps
                       ELSE [snaps EXCEPT ![b] = Append(@, r.artifact)]
           /\ last' = [b |-> b, op |-> "get_artifact", raised |-> r.raised]
    /\ UNCHANGED <<builders, pheap, tcalls>>
    /\ UNCHANGED varsOne

\* the lines fed to the two builders: a short one and one that is cut
LinesTwo == {<<>>, Rep("x", MAX_LINE_LENGTH) \o Rep("y", ExtraLen)}

ParseLineTwoStep ==
    \E b \in 1..2, line \in LinesTwo :
        \E oc \in [1..Len(builders[b].parsers) -> Outcomes] :
            parse_line_two(b, line, oc)

GetArtifactTwoStep ==
    \E b \in 1..2 : \E f \in 0..Len(builders[b].parsers) :
        get_artifact_two(b, f)

NextTwo == ParseLineTwoStep \/ GetArtifactTwoStep

SpecTwo == InitTwo /\ [][NextTwo]_vars

\* ------------------------------------------------------------- properties
Min(a, b) == IF a < b THEN a ELSE b

HasMarker(line) == Contains(TALOSDATA, line) \/ Contains(TalosResult, line)

\* the lines fed that contain a measurement marker
MarkerLines == {line \in InputLines : HasMarker(line)}

\* the first n characters of a line
FirstChars(line, n) == [k \in 1..n |-> line[k]]

\* sub-parser i was incomplete when the call began and the call got to it
Reached(i) == ~parsers[i].complete /\ (failed' = 0 \/ i <= failed')

\* C1: in every parse_line call whose line holds neither marker, each
\* sub-parser that is incomplete and that the call gets to is handed, once,
\* exactly the first min(Len(line), 500) characters of the line; no other
\* sub-parser is handed anything.
C1_TruncatedDelivery ==
    [][(ncalls' = ncalls + 1 /\ input' \notin MarkerLines) =>
        \A i \in 1..Len(parsers) :
            /\ Reached(i) => Len(delivered'[i]) = 1
            /\ \A k \in 1..Len(delivered'[i]) :
                  /\ delivered'[i][k].line
                        = FirstChars(input', Min(Len(input'), 500))
                  /\ Len(input') <= 500 => delivered'[i][k].line = input'
                  /\ Len(input') >= 500 => Len(delivered'[i][k].line) = 500]_vars

\* C1 witness: a line of more than 500 characters without marker has been
\* handed to a sub-parser as its first 500 characters.
C1_Witness ==
    /\ op = "parse_line"
    /\ input \notin MarkerLines
    /\ Len(input) = MAX_LINE_LENGTH + ExtraLen
    /\ \E i \in 1..Len(parsers) :
          /\ delivered[i] # <<>>
          /\ Len(delivered[i][1].line) = 500
          /\ delivered[i][1].line # input

\* C2: in every parse_line call whose line holds a marker anywhere, each
\* sub-parser that is incomplete and that the call gets to is handed, once,
\* the line itself, whatever its length.
C2_MarkerLineUncut ==
    [][(ncalls' = ncalls + 1 /\ input' \in MarkerLines) =>
        \A i \in 1..Len(parsers) :
            /\ Reached(i) => Len(delivered'[i]) = 1
            /\ \A k \in 1..Len(delivered'[i]) :
                  delivered'[i][k].line = input']_vars

\* C2 witness: a line whose only marker lies beyond character 500 has been
\* handed to a sub-parser in full.
C2_Witness ==
    /\ op = "parse_line"
    /\ HasMarker(input)
    /\ Len(input) > 500
    /\ ~HasMarker(FirstChars(input, 500))
    /\ \E i \in 1..Len(parsers) :
          /\ delivered[i] # <<>>
          /\ delivered[i][1].line = input

\* C3 as claimed: the line counter equals the number of parse_line calls
\* made since construction.
C3_CounterEqualsCalls == lineno = ncalls

\* C3 as amended: the line counter equals the number of parse_line calls
\* that returned normally; each such call adds exactly 1, a call ended by a
\* sub-parser's exception adds nothing, and get_artifact leaves it alone.
C3_CounterEqualsReturnedCalls ==
    /\ [](lineno = nreturned)
    /\ [][/\ (ncalls' = ncalls + 1 /\ ~raised') => lineno' = lineno + 1
          /\ (ncalls' = ncalls + 1 /\ raised') => lineno' = lineno
          /\ ncalls' = ncalls => lineno' = lineno]_vars

\* C3 witness: two calls returned although every sub-parser was complete
\* before the second one, so that it dispatched nothing.
C3_Witness ==
    /\ op = "parse_line"
    /\ ~raised
    /\ lineno = 2
    /\ \A i \in 1..Len(parsers) : parsers[i].complete /\ delivered[i] = <<>>

\* C4: once a sub-parser is complete, no parse_line call of the builder
\* calls its parse_line, and its flag and its artifact stay as they are.
C4_CompleteParserLeftAlone ==
    [][\A i \in 1..Len(parsers) :
          parsers[i].complete =>
              /\ delivered'[i] = <<>>
              /\ parsers'[i].complete
              /\ ParserGetArtifact(parsers'[i]) = ParserGetArtifact(parsers[i])
              /\ seen'[i] = seen[i]]_vars

\* C4 witness: a parse_line call has passed over a complete sub-parser.
C4_Witness ==
    /\ op = "parse_line"
    /\ \E i \in 1..Len(parsers) :
          /\ parsers[i].complete
          /\ delivered[i] = <<>>
          /\ Len(seen[i]) < ncalls

\* the names of the configured sub-parsers
ParserNames == {parsers[i].name : i \in 1..Len(parsers)}

\* C5: the mapping get_artifact returns has exactly the keys logurl and the
\* names of the builder's sub-parsers.
C5_ArtifactKeys ==
    (op = "get_artifact" /\ ~raised) =>
        /\ Len(ret) = 1
        /\ DOMAIN ret[1] = {"logurl"} \cup ParserNames

\* C5 witness: the structured-log-view builder has returned an artifact with
\* three keys after lines were processed.
C5_Witness ==
    /\ op = "get_artifact"
    /\ ~raised
    /\ variant = "logview"
    /\ ncalls > 0
    /\ Cardinality(DOMAIN ret[1]) = 3

\* C6 as claimed: a job-info builder fed no line returns exactly logurl = url
\* and the sub-parser's initial result under the key "Job Info".
C6_JobInfoKey ==
    (op = "get_artifact" /\ ~raised /\ variant = "job" /\ ncalls = 0) =>
        /\ DOMAIN ret[1] = {"logurl", "Job Info"}
        /\ ret[1]["logurl"] = url
        /\ ret[1]["Job Info"] = NewParser("TinderboxPrintParser", "", TRUE).artifact

\* C6 as amended: a job-info builder fed no line returns exactly two
\* entries, logurl = url and the sub-parser's initial result under the
\* sub-parser's own name; the builder's name "Job Info" is the key only if
\* the sub-parser carries that name.
C6_SubParserNameKey ==
    (op = "get_artifact" /\ ~raised /\ variant = "job" /\ ncalls = 0) =>
        /\ DOMAIN ret[1] = {"logurl", parsers[1].name}
        /\ Cardinality(DOMAIN ret[1]) = 2
        /\ ret[1]["logurl"] = url
        /\ ret[1][parsers[1].name]
              = NewParser("TinderboxPrintParser", "", TRUE).artifact
        /\ name = "Job Info"
        /\ ("Job Info" \in DOMAIN ret[1]) <=> (parsers[1].name = "Job Info")

\* C6 witness: a job-info builder with a url, fed no line, has returned its
\* artifact.
C6_Witness ==
    /\ op = "get_artifact"
    /\ ~raised
    /\ variant = "job"
    /\ ncalls = 0
    /\ url = <<"http://x/log.txt">>
    /\ Len(ret) = 1

\* the stream indices in a sequence
Range(q) == {q[k] : k \in 1..Len(q)}

\* the number of lines of the stream up to the one that completed
\* sub-parser i, or up to now if it is incomplete
StreamFor(i) ==
    IF parsers[i].complete THEN seen[i][Len(seen[i])] + 1 ELSE ncalls

\* C7 as claimed: each sub-parser has received every line of the stream, in
\* order and without gaps, up to the line on which it became complete.
C7_EveryLineOfTheStream ==
    \A i \in 1..Len(parsers) :
        seen[i] = [k \in 1..StreamFor(i) |-> k - 1]

\* C7 as amended: each sub-parser has received, in stream order, every line
\* of the stream up to the one on which it became complete, except the lines
\* whose call a failure of an earlier sub-parser ended; whether the other
\* sub-parsers are complete plays no part.
C7_EveryLineNotCutOff ==
    \A i \in 1..Len(parsers) :
        /\ \A k \in 1..(Len(seen[i]) - 1) : seen[i][k] < seen[i][k + 1]
        /\ Range(seen[i]) \cap cut[i] = {}
        /\ Range(seen[i]) \cup {c \in cut[i] : c < StreamFor(i)}
              = 0..(StreamFor(i) - 1)

\* C7 witness: in the structured-log-view builder the header parser has just
\* received a line that the complete step parser did not.
C7_Witness ==
    /\ variant = "logview"
    /\ op = "parse_line"
    /\ parsers[2].complete
    /\ ~parsers[1].complete
    /\ delivered[2] = <<>>
    /\ Len(delivered[1]) = 1
    /\ Len(seen[1]) > Len(seen[2])

\* C8: a builder operation ends in an exception exactly when a sub-parser's
\* call raised in it; that sub-parser was called once, and nothing is
\* returned.
C8_FailurePropagates ==
    /\ raised <=> failed # 0
    /\ raised => ret = <<>>
    /\ (failed # 0 /\ op = "parse_line") => Len(delivered[failed]) = 1
    /\ (failed # 0 /\ op = "get_artifact") => asked[failed] = 1

\* C8 witness: a sub-parser has raised during parse_line.
C8_Witness ==
    /\ op = "parse_line"
    /\ failed # 0
    /\ raised

\* C9: the logurl entry of the builder's artifact, and of every mapping
\* get_artifact returns, is the url given at construction.
C9_LogurlKept ==
    /\ artifact["logurl"] = url
    /\ (op = "get_artifact" /\ ~raised) => ret[1]["logurl"] = url

\* C9 witness: a builder constructed with a url has returned its artifact
\* after processing lines.
C9_Witness ==
    /\ op = "get_artifact"
    /\ ~raised
    /\ ncalls > 0
    /\ url # None
    /\ ret[1]["logurl"] = <<"http://x/log.txt">>

\* C10: each section of the mapping get_artifact returns is the sub-parser's
\* artifact at the time of the call, and two get_artifact calls in a row
\* return equal mappings.
C10_ArtifactIsCurrent ==
    /\ []((op = "get_artifact" /\ ~raised) =>
            \A i \in 1..Len(parsers) :
                ret[1][parsers[i].name] = ParserGetArtifact(parsers[i]))
    /\ [][(op = "get_artifact" /\ ~raised /\ op' = "get_artifact" /\ ~raised')
            => ret' = ret]_vars

\* C10 witness: get_artifact has returned a section that differs from the
\* sub-parser's initial result, so it was built after lines were processed.
C10_Witness ==
    /\ op = "get_artifact"
    /\ ~raised
    /\ \E i \in 1..Len(parsers) :
          /\ ParserGetArtifact(parsers[i]) # <<>>
          /\ ret[1][parsers[i].name] = ParserGetArtifact(parsers[i])

\* the number of parse_line calls that had returned normally before the last
\* parse_line call began
ReturnedBefore == IF raised THEN nreturned ELSE nreturned - 1

\* C11 as claimed: the k-th line of the stream (k from 0) reaches every
\* sub-parser it is dispatched to with line number k.
C11_KthLineNumberK ==
    op = "parse_line" =>
        \A i \in 1..Len(parsers) : \A k \in 1..Len(delivered[i]) :
            delivered[i][k].lineno = ncalls - 1

\* C11 as amended: a parse_line call visits the sub-parsers in declaration
\* order; all its dispatches carry the same text and the same line number,
\* the number of calls that returned normally before it; the counter is
\* incremented after the dispatches, and only if none raised.
C11_OrderAndLineNumber ==
    op = "parse_line" =>
        /\ \A k \in 1..(Len(order) - 1) : order[k] < order[k + 1]
        /\ {order[k] : k \in 1..Len(order)}
              = {i \in 1..Len(parsers) : delivered[i] # <<>>}
        /\ \A i \in 1..Len(parsers) : \A k \in 1..Len(delivered[i]) :
              /\ delivered[i][k].lineno = ReturnedBefore
              /\ delivered[i][k].line = Truncated[input]
        /\ lineno = ReturnedBefore + (IF raised THEN 0 ELSE 1)

\* C11 witness: the second call on a structured-log-view builder has
\* dispatched its line to the header parser and then to the step parser,
\* both with line number 1.
C11_Witness ==
    /\ op = "parse_line"
    /\ variant = "logview"
    /\ order = <<1, 2>>
    /\ ncalls = 2
    /\ delivered[1][1].lineno = 1
    /\ delivered[2][1].lineno = 1
    /\ lineno = 2

\* C12: a get_artifact call, returning or raising, leaves the line counter,
\* the sub-parser list with every sub-parser's flag and state, and the
\* builder's name as they were; of the builder's fields only the artifact
\* mapping may change, and only by sections being added or overwritten.
C12_GetArtifactFrame ==
    [][(op' = "get_artifact" /\ ncalls' = ncalls) =>
          /\ lineno' = lineno
          /\ parsers' = parsers
          /\ name' = name
          /\ DOMAIN artifact \subseteq DOMAIN artifact'
          /\ artifact'["logurl"] = artifact["logurl"]]_vars

\* C12 witness: get_artifact was called between the first and the second
\* line, and the second line then reached a sub-parser with line number 1.
C12_Witness ==
    /\ op = "parse_line"
    /\ ~raised
    /\ lineno = 2
    /\ \E i \in 1..Len(parsers) :
          /\ parsers[i].name \in DOMAIN artifact
          /\ artifact[parsers[i].name] = <<0>>
          /\ ParserGetArtifact(parsers[i]) = <<0, 1>>
          /\ Len(delivered[i]) = 1
          /\ delivered[i][1].lineno = 1

\* the classes of the configured sub-parsers, in list order
ParserClasses == [i \in 1..Len(parsers) |-> parsers[i].cls]

\* C13: the job-info builder holds one TinderboxPrintParser and is named
\* "Job Info", the structured-log-view builder holds a HeaderParser followed
\* by a StepParser and is named "Structured Log", the performance-data
\* builder holds one TalosParser and is named "talos_data"; no parse_line or
\* get_artifact call changes the list, its order or the name.
C13_VariantWiring ==
    /\ [](/\ variant = "job" =>
               /\ ParserClasses = <<"TinderboxPrintParser">>
               /\ name = "Job Info"
          /\ variant = "logview" =>
               /\ ParserClasses = <<"HeaderParser", "StepParser">>
               /\ name = "Structured Log"
          /\ variant = "perf" =>
               /\ ParserClasses = <<"TalosParser">>
               /\ name = "talos_data")
    /\ [][/\ ParserClasses' = ParserClasses
          /\ [i \in 1..Len(parsers) |-> parsers[i].name]
                = [i \in 1..Len(parsers') |-> parsers'[i].name]
          /\ name' = name
          /\ variant' = variant]_vars

\* C13 witness: a job-info builder has processed two lines, completed its
\* sub-parser and returned its artifact.
C13_Witness ==
    /\ variant = "job"
    /\ op = "get_artifact"
    /\ ~raised
    /\ lineno = 2
    /\ parsers[1].complete
    /\ name = "Job Info"

\* C15: the check_errors flag a variant constructor accepts is the
\* check_errors setting of the sub-parser it concerns: the step parser of the
\* structured-log-view builder, the sub-parser of the performance-data
\* builder.
C15_FlagsForwarded ==
    /\ variant = "logview" => parsers[2].check_errors = check_errors
    /\ variant = "perf" => parsers[1].check_errors = check_errors

\* C16: when a sub-parser raises during parse_line, the incomplete
\* sub-parsers before it have consumed the line, the sub-parsers after it
\* are neither called nor changed, and the line counter keeps its value; the
\* next parse_line call then delivers its line with the line number the
\* failed call used.
C16_PartialDispatch ==
    [][/\ (ncalls' = ncalls + 1 /\ failed' # 0) =>
             /\ raised'
             /\ lineno' = lineno
             /\ \A i \in 1..Len(parsers) :
                   /\ (i < failed' /\ ~parsers[i].complete) =>
                         /\ Len(delivered'[i]) = 1
                         /\ ParserGetArtifact(parsers'[i])
                               = Append(ParserGetArtifact(parsers[i]), lineno)
                   /\ i > failed' =>
                         /\ delivered'[i] = <<>>
                         /\ parsers'[i] = parsers[i]
       /\ (ncalls' = ncalls + 1 /\ op = "parse_line" /\ failed # 0) =>
             \A i \in 1..Len(parsers) : \A k \in 1..Len(delivered'[i]) :
                 delivered'[i][k].lineno = delivered[failed][1].lineno]_vars

\* C16 witness: on a structured-log-view builder the first call was ended by
\* a failure and the second call, in which the step parser raised after the
\* header parser had consumed the line, used line number 0 again.
C16_Witness ==
    /\ variant = "logview"
    /\ op = "parse_line"
    /\ ncalls = 2
    /\ nreturned = 0
    /\ failed = 2
    /\ Len(delivered[1]) = 1
    /\ delivered[1][1].lineno = 0
    /\ delivered[2][1].lineno = 0
    /\ lineno = 0

\* C14: with two builders called in any interleaving, each builder's line
\* counter, sub-parser states, artifact mapping and returned artifact are
\* those its own calls produce on a builder that is by itself.
C14_BuildersIndependent ==
    \A b \in 1..2 :
        /\ builders[b].lineno = alone[b].lineno
        /\ ParsersOf(b) = alone[b].parsers
        /\ dheap[builders[b].artifact] = alone[b].artifact
        /\ (last.b = b /\ last.op = "get_artifact" /\ ~last.raised) =>
              snaps[b][Len(snaps[b])] = alone[b].artifact

\* C14 witness: two structured-log-view builders have each processed a line
\* and returned an artifact, and their header parsers are in different
\* states.
C14_Witness ==
    /\ builders[1].variant = "logview"
    /\ builders[2].variant = "logview"
    /\ builders[1].lineno = 1
    /\ builders[2].lineno = 1
    /\ ParsersOf(1)[1].complete
    /\ ~ParsersOf(2)[1].complete
    /\ Len(rets[1]) > 0
    /\ Len(rets[2]) > 0

====
